---- MODULE Spec2Model ----
(***************************************************************************)
(* Task lifecycle and scheduling engine of imapsyncui.py (class            *)
(* ImapSyncTUI): submission of synchronisation tasks, the worker thread    *)
(* of each run, the one-shot recurrence timer and manual stop.             *)
(*                                                                         *)
(* Every `with self.lock:` section of the source is one atomic step.  A    *)
(* blocking call outside the lock (Popen, readline, stderr.read) is        *)
(* merged with the lock section that follows it.  The interface thread is  *)
(* modal: a popup opened outside the lock belongs to the step of its       *)
(* handler; a popup opened inside a lock section (_stop_sync) keeps the    *)
(* lock until the key is pressed, which is a step of its own (wait_key).   *)
(* popup tells which handler's popup, opened inside a lock section, waits  *)
(* for its key.  Of the status bar text only the rejection of a launch is  *)
(* kept; every other text is OtherMessage.                                 *)
(*                                                                         *)
(* uuid.uuid4() is modelled by its contract: a value never returned        *)
(* before (the source keeps its first 8 hexadecimal digits and checks no   *)
(* collision).  Account data and file paths are taken not to contain the   *)
(* failure patterns "erreur" / "echouee".                                   *)
(***************************************************************************)
EXTENDS Integers, Sequences, FiniteSets, TLC

VARIABLES sync_tasks, threads, timers, uuid_draws, log_scroll_offsets, lock,
          popup, status_message, events

vars == <<sync_tasks, threads, timers, uuid_draws, log_scroll_offsets, lock,
          popup, status_message, events>>

(* ---------------------------- bounds ------------------------------------ *)
\* worker threads started in one behaviour (initial runs and timer runs)
MaxRuns == 2
\* events other than the steps of a silent, successful run in one behaviour
\* (counted in events): a stdout line, a successful stop call, a missing
\* project or binary, Popen raising, a process ending with exit code # 0 or
\* with stderr output, an operation of the logs menu (toggle, scroll,
\* search, export)
MaxEvents == 1

(* ------------------------- configuration -------------------------------- *)
\* self.config["projects"]: "p1" has two accounts, "p2" has none
ProjectNames == {"p1", "p2"}

ProjectAccounts(project_name) ==
    IF project_name = "p1" THEN <<"a1", "a2">> ELSE <<>>

\* default of the interval prompt, in minutes
DefaultInterval == 60

\* intervals entered at launch: no recurrence, or the default
Intervals == {0, DefaultInterval}

(* --------------------------- status values ------------------------------ *)
Running == "En cours"
Completed == "Terminee"
Failed == "Erreur: echecs sur un ou plusieurs comptes"
ProjectNotFound == "Erreur: Projet introuvable"
BinaryNotFound == "Erreur: imapsync introuvable"
Stopped == "Arretee"

(* ------------------------------ logs ------------------------------------ *)
\* One log line: its kind (the fixed part of the text), whether its variable
\* part contains a failure pattern, and the worker thread and account index
\* that appended it (thread 0: the interface thread).
LogLine(kind, text, thread, acc) ==
    [kind |-> kind, text |-> text, thread |-> thread, acc |-> acc]

\* the test without lower(): the upper-case tag ERREUR: is not matched
IsFailureLineCaseSensitive(line) ==
    \/ line.kind = "echouee"
    \/ line.text = "erreur"

\* "échouée" in log.lower() or "erreur" in log.lower()
IsFailureLine(line) ==
    \/ line.kind \in {"ERREUR", "echouee"}
    \/ line.text = "erreur"

AnyFailureLine(logs) ==
    \E i \in 1..Len(logs) : IsFailureLine(logs[i])

(* ----------------------------- submit ----------------------------------- *)
TaskIdProjectOnly(project_name, u) == <<project_name, 0>>

\* f"{project['project_name']}_{uuid.uuid4().hex[:8]}"
TaskId(project_name, u) == <<project_name, u>>

NewThread(task_id) ==
    [task_id |-> task_id, pc |-> "start", acc |-> 0,
     alive |-> FALSE, rc |-> 0, err |-> FALSE]

StartSyncAlwaysArmed(st, project_name, selected_accounts, interval) ==
    LET u == st.uuid + 1
        task_id == TaskId(project_name, u)
        th == Len(st.threads) + 1
        tm == Len(st.timers) + 1
        task == [project_name |-> project_name, status |-> Running,
                 logs |-> <<>>, thread |-> th, process |-> 0,
                 selected_accounts |-> selected_accounts,
                 interval |-> interval, timer |-> tm, expanded |-> FALSE]
    IN  [tasks |-> (task_id :> task) @@ st.tasks,
         threads |-> Append(st.threads, NewThread(task_id)),
         timers |-> Append(st.timers, [task_id |-> task_id, state |-> "pending"]),
         uuid |-> u]

StartSyncArmsTwice(st, project_name, selected_accounts, interval) ==
    LET once == StartSyncAlwaysArmed(st, project_name, selected_accounts, interval)
    IN  [once EXCEPT !.timers = Append(@, @[Len(@)])]

\* _start_sync: the task is stored, its worker thread started and, when
\* interval > 0, a one-shot timer armed.
_start_sync(st, project_name, selected_accounts, interval) ==
    LET u == st.uuid + 1
        task_id == TaskId(project_name, u)
        th == Len(st.threads) + 1
        tm == Len(st.timers) + 1
        armed == interval > 0
        task == [project_name |-> project_name, status |-> Running,
                 logs |-> <<>>, thread |-> th, process |-> 0,
                 selected_accounts |-> selected_accounts,
                 interval |-> interval,
                 timer |-> IF armed THEN tm ELSE 0, expanded |-> FALSE]
    IN  [tasks |-> (task_id :> task) @@ st.tasks,
         threads |-> Append(st.threads, NewThread(task_id)),
         timers |-> IF armed
                    THEN Append(st.timers, [task_id |-> task_id, state |-> "pending"])
                    ELSE st.timers,
         uuid |-> u]

\* [acc for acc, sel in zip(accounts, selected) if sel]
RECURSIVE _select_accounts_to_sync(_, _, _)
_select_accounts_to_sync(accounts, selected, i) ==
    IF i > Len(accounts) THEN <<>>
    ELSE (IF i \in selected THEN <<accounts[i]>> ELSE <<>>)
         \o _select_accounts_to_sync(accounts, selected, i + 1)

\* one call for the whole selection: self._start_sync(project, selected_accounts, interval)
StartAll(st, project_name, selected_accounts, interval) ==
    IF selected_accounts = <<>> THEN st
    ELSE _start_sync(st, project_name, selected_accounts, interval)

\* for acc in selected_accounts: self._start_sync(project, [acc], interval)
RECURSIVE StartEach(_, _, _, _)
StartEach(st, project_name, selected_accounts, interval) ==
    IF selected_accounts = <<>> THEN st
    ELSE StartEach(_start_sync(st, project_name, <<Head(selected_accounts)>>, interval),
                   project_name, Tail(selected_accounts), interval)

State == [tasks |-> sync_tasks, threads |-> threads, timers |-> timers,
          uuid |-> uuid_draws]

SetState(st) ==
    /\ sync_tasks' = st.tasks
    /\ threads' = st.threads
    /\ timers' = st.timers
    /\ uuid_draws' = st.uuid
    \* self.log_scroll_offsets[task_id] = 0 for every task stored
    /\ log_scroll_offsets' =
          [id \in DOMAIN st.tasks |->
              IF id \in DOMAIN sync_tasks THEN log_scroll_offsets[id] ELSE 0]

\* status bar texts
NoAccountMessage == "Aucun compte"
OtherMessage == "autre"

LaunchUnchecked(project_name, selected, interval) ==
    LET selected_accounts ==
            _select_accounts_to_sync(ProjectAccounts(project_name), selected, 1)
    IN  /\ ~lock
        /\ Len(threads) + 1 <= MaxRuns
        /\ SetState(_start_sync(State, project_name, selected_accounts, interval))
        /\ status_message' = OtherMessage
        /\ UNCHANGED <<lock, popup, events>>

\* action_launch_sync, from the choice of the project on
action_launch_sync(project_name, selected, interval) ==
    LET accounts == ProjectAccounts(project_name)
        selected_accounts == _select_accounts_to_sync(accounts, selected, 1)
    IN  /\ ~lock
        /\ Len(threads) + Len(selected_accounts) <= MaxRuns
        /\ IF accounts = <<>>
           THEN /\ status_message' = NoAccountMessage
                /\ UNCHANGED <<sync_tasks, threads, timers, uuid_draws, log_scroll_offsets>>
           ELSE IF selected_accounts = <<>>
           THEN /\ status_message' = NoAccountMessage
                /\ UNCHANGED <<sync_tasks, threads, timers, uuid_draws, log_scroll_offsets>>
           ELSE /\ SetState(StartEach(State, project_name, selected_accounts, interval))
                /\ status_message' = OtherMessage
        /\ UNCHANGED <<lock, popup, events>>

(* ------------------------- recurrence timer ----------------------------- *)
\* a callback that only leaves out the tasks the user stopped
ScheduledSyncUnlessStopped(k) ==
    LET task_id == timers[k].task_id
        restart == /\ task_id \in DOMAIN sync_tasks
                   /\ sync_tasks[task_id].status # Stopped
    IN  /\ timers[k].state = "pending"
        /\ ~lock
        /\ timers' = [timers EXCEPT ![k].state = "fired"]
        /\ IF restart
           THEN /\ Len(threads) < MaxRuns
                /\ threads' = Append(threads, NewThread(task_id))
                /\ sync_tasks' = [sync_tasks EXCEPT ![task_id].thread = Len(threads) + 1]
           ELSE UNCHANGED <<sync_tasks, threads>>
        /\ UNCHANGED <<uuid_draws, log_scroll_offsets, lock, popup, status_message, events>>

\* _scheduled_sync, called by the one-shot threading.Timer armed in _start_sync
_scheduled_sync(k) ==
    LET task_id == timers[k].task_id
        restart == /\ task_id \in DOMAIN sync_tasks
                   /\ sync_tasks[task_id].status \in {Running, Completed, Failed}
    IN  /\ timers[k].state = "pending"
        /\ ~lock
        /\ timers' = [timers EXCEPT ![k].state = "fired"]
        /\ IF restart
           THEN /\ Len(threads) < MaxRuns
                /\ threads' = Append(threads, NewThread(task_id))
                /\ sync_tasks' = [sync_tasks EXCEPT ![task_id].thread = Len(threads) + 1]
           ELSE UNCHANGED <<sync_tasks, threads>>
        /\ UNCHANGED <<uuid_draws, log_scroll_offsets, lock, popup, status_message, events>>

(* --------------------------- worker thread ------------------------------ *)
\* 1 when one of the conditions makes the step a counted event, else 0
Deviations(conditions) ==
    IF TRUE \in conditions THEN 1 ELSE 0

AppendLogFront(task_id, line) ==
    [sync_tasks EXCEPT ![task_id].logs = <<line>> \o @]

AppendLogLastOnly(task_id, line) ==
    [sync_tasks EXCEPT ![task_id].logs = <<line>>]

AppendLogShared(task_id, line) ==
    [id \in DOMAIN sync_tasks |->
        [sync_tasks[id] EXCEPT !.logs = Append(@, line)]]

\* task["logs"].append(...)
AppendLog(task_id, line) ==
    [sync_tasks EXCEPT ![task_id].logs = Append(@, line)]

NextAccountHalting(w) ==
    LET th == threads[w]
        accounts == sync_tasks[th.task_id].selected_accounts
    IN  IF th.acc < Len(accounts) /\ th.rc = 0
        THEN [th EXCEPT !.pc = "cmd", !.acc = th.acc + 1]
        ELSE [th EXCEPT !.pc = "final"]

\* the account loop moves to the next account, or to the final status
NextAccount(w) ==
    LET th == threads[w]
        accounts == sync_tasks[th.task_id].selected_accounts
    IN  IF th.acc < Len(accounts)
        THEN [th EXCEPT !.pc = "cmd", !.acc = th.acc + 1]
        ELSE [th EXCEPT !.pc = "final"]

\* _run_imapsync_for_task, first lock section: project and binary look-up
RunBegin(w, project_found, bin_exists) ==
    LET th == threads[w]
        task_id == th.task_id
    IN  /\ th.pc = "start"
        /\ ~lock
        /\ events + Deviations({~project_found, ~bin_exists}) <= MaxEvents
        /\ events' = events + Deviations({~project_found, ~bin_exists})
        /\ IF ~project_found
           THEN /\ sync_tasks' = [sync_tasks EXCEPT ![task_id].status = ProjectNotFound]
                /\ threads' = [threads EXCEPT ![w].pc = "done"]
           ELSE IF ~bin_exists
           THEN /\ sync_tasks' =
                      [sync_tasks EXCEPT
                          ![task_id].logs = Append(@, LogLine("Binaire introuvable", "plain", w, 0)),
                          ![task_id].status = BinaryNotFound]
                /\ threads' = [threads EXCEPT ![w].pc = "done"]
           ELSE /\ threads' = [threads EXCEPT ![w] = NextAccount(w)]
                /\ UNCHANGED sync_tasks
        /\ UNCHANGED <<timers, uuid_draws, log_scroll_offsets, lock, popup, status_message>>

\* task["logs"].append(f"Commande : {cmd_str}")
LogCommand(w) ==
    LET th == threads[w]
    IN  /\ th.pc = "cmd"
        /\ ~lock
        /\ sync_tasks' = AppendLog(th.task_id, LogLine("Commande", "plain", w, th.acc))
        /\ threads' = [threads EXCEPT ![w].pc = "popen"]
        /\ UNCHANGED <<timers, uuid_draws, log_scroll_offsets, lock, popup, status_message, events>>

PopenUnlocked(w) ==
    LET th == threads[w]
    IN  /\ th.pc = "popen"
        /\ sync_tasks' = [sync_tasks EXCEPT ![th.task_id].process = w]
        /\ threads' = [threads EXCEPT ![w].pc = "read", ![w].alive = TRUE,
                                      ![w].rc = 0, ![w].err = FALSE]
        /\ UNCHANGED <<timers, uuid_draws, log_scroll_offsets, lock, popup,
                       status_message, events>>

\* subprocess.Popen succeeds; task["process"] = proc
Popen(w) ==
    LET th == threads[w]
    IN  /\ th.pc = "popen"
        /\ ~lock
        /\ sync_tasks' = [sync_tasks EXCEPT ![th.task_id].process = w]
        /\ threads' = [threads EXCEPT ![w].pc = "read", ![w].alive = TRUE,
                                      ![w].rc = 0, ![w].err = FALSE]
        /\ UNCHANGED <<timers, uuid_draws, log_scroll_offsets, lock, popup, status_message, events>>

\* subprocess.Popen raises; the except clause logs str(e)
PopenRaises(w, text) ==
    LET th == threads[w]
    IN  /\ th.pc = "popen"
        /\ ~lock
        /\ events < MaxEvents
        /\ events' = events + 1
        /\ sync_tasks' = AppendLog(th.task_id, LogLine("Exception", text, w, th.acc))
        /\ threads' = [threads EXCEPT ![w] = NextAccount(w)]
        /\ UNCHANGED <<timers, uuid_draws, log_scroll_offsets, lock, popup, status_message>>

ReadLineHoldingLock(w, text) ==
    LET th == threads[w]
    IN  /\ th.pc = "read"
        /\ ~lock
        /\ events < MaxEvents
        /\ events' = events + 1
        /\ sync_tasks' = AppendLog(th.task_id, LogLine("stdout", text, w, th.acc))
        /\ status_message' = OtherMessage
        /\ lock' = TRUE
        /\ UNCHANGED <<threads, timers, uuid_draws, log_scroll_offsets, popup>>

\* proc.stdout.readline() returns a line; it is appended under the lock
ReadLine(w, text) ==
    LET th == threads[w]
    IN  /\ th.pc = "read"
        /\ ~lock
        /\ events < MaxEvents
        /\ events' = events + 1
        /\ sync_tasks' = AppendLog(th.task_id, LogLine("stdout", text, w, th.acc))
        /\ status_message' = OtherMessage
        /\ UNCHANGED <<threads, timers, uuid_draws, log_scroll_offsets, lock, popup>>

\* the external process exits (by itself or after proc.terminate())
ProcessExit(w, rc, err) ==
    LET th == threads[w]
    IN  /\ th.pc = "read"
        /\ th.alive
        /\ events + Deviations({rc # 0, err}) <= MaxEvents
        /\ events' = events + Deviations({rc # 0, err})
        /\ threads' = [threads EXCEPT ![w].alive = FALSE, ![w].rc = rc, ![w].err = err]
        /\ UNCHANGED <<sync_tasks, timers, uuid_draws, log_scroll_offsets, lock, popup, status_message>>

\* a read loop without its break: the worker goes on polling the exited process
ReadEOFSpinning(w) ==
    LET th == threads[w]
    IN  /\ th.pc = "read"
        /\ ~th.alive
        /\ UNCHANGED vars

\* readline() returns "" and proc.poll() is not None: the read loop ends,
\* stderr is read and, when not empty, logged with the ERREUR: tag
ReadEOF(w) ==
    LET th == threads[w]
    IN  /\ th.pc = "read"
        /\ ~th.alive
        /\ IF th.err
           THEN /\ ~lock
                /\ sync_tasks' = AppendLog(th.task_id, LogLine("ERREUR", "plain", w, th.acc))
                /\ status_message' = OtherMessage
           ELSE UNCHANGED <<sync_tasks, status_message>>
        /\ threads' = [threads EXCEPT ![w].pc = "rc"]
        /\ UNCHANGED <<timers, uuid_draws, log_scroll_offsets, lock, popup, events>>

\* rc = proc.returncode; the outcome line of the account is logged
LogOutcome(w) ==
    LET th == threads[w]
    IN  /\ th.pc = "rc"
        /\ ~lock
        /\ sync_tasks' = AppendLog(th.task_id,
                             LogLine(IF th.rc = 0 THEN "OK" ELSE "echouee", "plain", w, th.acc))
        /\ threads' = [threads EXCEPT ![w] = NextAccount(w)]
        /\ UNCHANGED <<timers, uuid_draws, log_scroll_offsets, lock, popup, status_message, events>>

\* "Statut final": any failure pattern in the task's logs gives the error status
FinalStatus(task) ==
    IF AnyFailureLine(task.logs) THEN Failed ELSE Completed

WriteFinalStatus(w) ==
    LET th == threads[w]
    IN  /\ th.pc = "final"
        /\ ~lock
        /\ sync_tasks' = [sync_tasks EXCEPT
                             ![th.task_id].status = FinalStatus(sync_tasks[th.task_id])]
        /\ threads' = [threads EXCEPT ![w].pc = "done"]
        /\ UNCHANGED <<timers, uuid_draws, log_scroll_offsets, lock, popup, status_message, events>>

(* ------------------------------- stop ----------------------------------- *)
\* an identifier that is the key of no task
UnknownTaskId == <<"p1", 0>>

StopSyncAlways(task_id) ==
    /\ ~lock
    /\ lock' = TRUE
    /\ popup' = "stop"
    /\ IF task_id \notin DOMAIN sync_tasks
       THEN UNCHANGED <<sync_tasks, events>>
       ELSE /\ events < MaxEvents
            /\ events' = events + 1
            /\ sync_tasks' =
                  [sync_tasks EXCEPT
                      ![task_id].status = Stopped,
                      ![task_id].logs = Append(@, LogLine("arretee", "plain", 0, 0))]
    /\ UNCHANGED <<threads, timers, uuid_draws, log_scroll_offsets, status_message>>

\* _stop_sync up to the popup, which is opened inside the lock section
_stop_sync(task_id) ==
    /\ ~lock
    /\ lock' = TRUE
    /\ popup' = "stop"
    /\ IF task_id \notin DOMAIN sync_tasks
       THEN UNCHANGED <<sync_tasks, events>>
       ELSE LET task == sync_tasks[task_id]
                proc == task.process
            IN  IF proc # 0 /\ threads[proc].alive
                THEN /\ events < MaxEvents
                     /\ events' = events + 1
                     /\ sync_tasks' =
                           [sync_tasks EXCEPT
                               ![task_id].status = Stopped,
                               ![task_id].logs = Append(@, LogLine("arretee", "plain", 0, 0))]
                ELSE UNCHANGED <<sync_tasks, events>>
    /\ UNCHANGED <<threads, timers, uuid_draws, log_scroll_offsets, status_message>>

\* popup_message of _stop_sync or _export_logs: getch() returns, the message
\* goes to the status bar and the lock section of the handler ends
wait_key ==
    /\ lock
    /\ lock' = FALSE
    /\ popup' = "none"
    /\ status_message' = OtherMessage
    /\ UNCHANGED <<sync_tasks, threads, timers, uuid_draws, log_scroll_offsets, events>>

(* ----------------------------- logs menu -------------------------------- *)
\* self.main_win.getmaxyx()[0]: height of the main window
MainWinHeight == 6

\* window_size = self.main_win.getmaxyx()[0] - 5
WindowSize == MainWinHeight - 5

Max(a, b) == IF a >= b THEN a ELSE b

\* _page_size: max(1, h // 2)
_page_size == Max(1, MainWinHeight \div 2)

\* a clamp to the number of lines instead of the last full window
NewOffsetNoWindow(current_offset, delta, max_logs) ==
    LET new_offset == Max(0, current_offset + delta)
    IN  IF new_offset > max_logs
        THEN Max(0, max_logs)
        ELSE new_offset

\* the offset _scroll_logs computes for one expanded task
NewOffset(current_offset, delta, max_logs) ==
    LET new_offset == Max(0, current_offset + delta)
    IN  IF new_offset > max_logs - WindowSize
        THEN Max(0, max_logs - WindowSize)
        ELSE new_offset

\* _scroll_logs: under the lock, the offset of every expanded task is moved
_scroll_logs(delta) ==
    /\ ~lock
    /\ log_scroll_offsets' =
          [id \in DOMAIN sync_tasks |->
              IF sync_tasks[id].expanded
              THEN NewOffset(log_scroll_offsets[id], delta, Len(sync_tasks[id].logs))
              ELSE log_scroll_offsets[id]]
    /\ UNCHANGED <<sync_tasks, threads, timers, uuid_draws, lock, popup, status_message>>

\* _toggle_task_expansion with the Enter key on task_id; with no task the
\* handler only shows a popup
_toggle_task_expansion(task_id) ==
    /\ ~lock
    /\ IF DOMAIN sync_tasks = {}
       THEN /\ status_message' = OtherMessage
            /\ UNCHANGED sync_tasks
       ELSE /\ task_id \in DOMAIN sync_tasks
            /\ sync_tasks' = [sync_tasks EXCEPT ![task_id].expanded = ~@]
            /\ UNCHANGED status_message
    /\ UNCHANGED <<threads, timers, uuid_draws, log_scroll_offsets, lock, popup>>

\* _search_logs: the logs are read under the lock; a popup (and its status
\* bar text) follows when the term is empty or matches no line
_search_logs(term) ==
    LET matched == \E id \in DOMAIN sync_tasks :
                       \E i \in 1..Len(sync_tasks[id].logs) :
                           sync_tasks[id].logs[i].kind = term
    IN  /\ ~lock
        /\ events < MaxEvents
        /\ events' = events + 1
        /\ status_message' = IF matched THEN status_message ELSE OtherMessage
        /\ UNCHANGED <<sync_tasks, threads, timers, uuid_draws,
                       log_scroll_offsets, lock, popup>>

ExportLogsFlushing(filename) ==
    /\ ~lock
    /\ events < MaxEvents
    /\ events' = events + 1
    /\ lock' = TRUE
    /\ popup' = "export"
    /\ sync_tasks' = [id \in DOMAIN sync_tasks |-> [sync_tasks[id] EXCEPT !.logs = <<>>]]
    /\ UNCHANGED <<threads, timers, uuid_draws, log_scroll_offsets, status_message>>

\* _export_logs: with a file name the tasks are written out under the lock
\* and the popup (success or error) is opened inside the lock section
_export_logs(filename) ==
    /\ ~lock
    /\ events < MaxEvents
    /\ events' = events + 1
    /\ IF filename = ""
       THEN /\ status_message' = OtherMessage
            /\ UNCHANGED <<lock, popup>>
       ELSE /\ lock' = TRUE
            /\ popup' = "export"
            /\ UNCHANGED status_message
    /\ UNCHANGED <<sync_tasks, threads, timers, uuid_draws, log_scroll_offsets>>

(* ------------------------------ dashboard ------------------------------- *)
\* The text of a status, cut where the word "Erreur" ends.
StatusWords(status) ==
    CASE status = Failed -> <<"Erreur", ": echecs sur un ou plusieurs comptes">>
      [] status = ProjectNotFound -> <<"Erreur", ": Projet introuvable">>
      [] status = BinaryNotFound -> <<"Erreur", ": imapsync introuvable">>
      [] OTHER -> <<status>>

\* a test against the one failure text the end of a run writes
ContainsErreurExact(status) == status = Failed

\* "Erreur" in t["status"]
ContainsErreur(status) ==
    \E i \in 1..Len(StatusWords(status)) : StatusWords(status)[i] = "Erreur"

IsRunning(status) == status = Running

IsSucceeded(status) == status = Completed

IsStopped(status) == status = Stopped

\* the five numbers _draw_home_content computes under the lock, each
\* sum(1 for t in self.sync_tasks.values() if <test on t["status"]>)
_draw_home_content ==
    [total |-> Cardinality(DOMAIN sync_tasks),
     running |-> Cardinality({id \in DOMAIN sync_tasks : IsRunning(sync_tasks[id].status)}),
     succeeded |-> Cardinality({id \in DOMAIN sync_tasks : IsSucceeded(sync_tasks[id].status)}),
     failed |-> Cardinality({id \in DOMAIN sync_tasks : ContainsErreur(sync_tasks[id].status)}),
     stopped |-> Cardinality({id \in DOMAIN sync_tasks : IsStopped(sync_tasks[id].status)})]

(* --------------------------- specification ------------------------------ *)
Texts == {"plain", "erreur"}

ExitCodes == {0, 1}

Init ==
    /\ sync_tasks = <<>>
    /\ threads = <<>>
    /\ timers = <<>>
    /\ uuid_draws = 0
    /\ log_scroll_offsets = <<>>
    /\ lock = FALSE
    /\ popup = "none"
    /\ status_message = OtherMessage
    /\ events = 0

\* check-box choices explored for a project: none, the first account, all
Selections(project_name) ==
    {{}, {1} \cap (1..Len(ProjectAccounts(project_name))),
     1..Len(ProjectAccounts(project_name))}

Launch ==
    \E p \in ProjectNames : \E sel \in Selections(p) :
        \E iv \in Intervals : action_launch_sync(p, sel, iv)

TimerFires == \E k \in 1..Len(timers) : _scheduled_sync(k)

WorkerBegins ==
    \E w \in 1..Len(threads) : \E found, bin \in BOOLEAN : RunBegin(w, found, bin)

WorkerLogsCommand == \E w \in 1..Len(threads) : LogCommand(w)

WorkerSpawns == \E w \in 1..Len(threads) : Popen(w)

WorkerSpawnFails == \E w \in 1..Len(threads) : \E text \in Texts : PopenRaises(w, text)

WorkerReadsLine == \E w \in 1..Len(threads) : \E text \in Texts : ReadLine(w, text)

ProcessExits ==
    \E w \in 1..Len(threads) : \E rc \in ExitCodes : \E err \in BOOLEAN :
        ProcessExit(w, rc, err)

WorkerReadsEOF == \E w \in 1..Len(threads) : ReadEOF(w)

WorkerLogsOutcome == \E w \in 1..Len(threads) : LogOutcome(w)

WorkerEnds == \E w \in 1..Len(threads) : WriteFinalStatus(w)

Stop == \E task_id \in DOMAIN sync_tasks \cup {UnknownTaskId} : _stop_sync(task_id)

\* keys of the logs menu
Deltas == {-1, 1, -_page_size, _page_size}

SearchTerms == {"", "Commande"}

FileNames == {"", "logs_export.txt"}

\* the step is one of the counted events of the behaviour
CountedEvent ==
    /\ events < MaxEvents
    /\ events' = events + 1

Scroll == \E delta \in Deltas : CountedEvent /\ _scroll_logs(delta)

Toggle == \E task_id \in DOMAIN sync_tasks \cup {UnknownTaskId} :
              CountedEvent /\ _toggle_task_expansion(task_id)

Search == \E term \in SearchTerms : _search_logs(term)

Export == \E filename \in FileNames : _export_logs(filename)

Next ==
    \/ Launch
    \/ TimerFires
    \/ WorkerBegins
    \/ WorkerLogsCommand
    \/ WorkerSpawns
    \/ WorkerSpawnFails
    \/ WorkerReadsLine
    \/ ProcessExits
    \/ WorkerReadsEOF
    \/ WorkerLogsOutcome
    \/ WorkerEnds
    \/ Stop
    \/ Scroll
    \/ Toggle
    \/ Search
    \/ Export
    \/ wait_key

Spec == Init /\ [][Next]_vars

(* ------------------- one run over a sequence of accounts ---------------- *)
\* The launch handlers store one account per task.  The account loop of
\* _run_imapsync_for_task is written for any task["selected_accounts"]; here
\* it runs from the state _start_sync leaves for a task that holds a whole
\* sequence of accounts, without recurrence.
AccountSequences == {<<"a1">>, <<"a1", "a2">>, <<"a2", "a1">>}

InitRun ==
    \E selected_accounts \in AccountSequences :
        LET st == _start_sync([tasks |-> <<>>, threads |-> <<>>,
                               timers |-> <<>>, uuid |-> 0],
                              "p1", selected_accounts, 0)
        IN  /\ sync_tasks = st.tasks
            /\ threads = st.threads
            /\ timers = st.timers
            /\ uuid_draws = st.uuid
            /\ log_scroll_offsets = [id \in DOMAIN st.tasks |-> 0]
            /\ lock = FALSE
            /\ popup = "none"
            /\ status_message = OtherMessage
            /\ events = 0

NextRun ==
    \/ WorkerBegins
    \/ WorkerLogsCommand
    \/ WorkerSpawns
    \/ WorkerSpawnFails
    \/ WorkerReadsLine
    \/ ProcessExits
    \/ WorkerReadsEOF
    \/ WorkerLogsOutcome
    \/ WorkerEnds
    \/ Stop
    \/ wait_key

SpecRun == InitRun /\ [][NextRun]_vars

\* Every thread that can take a step takes it, and the key of an open popup
\* is pressed; nothing makes the external process exit.
SpecRunFair ==
    /\ SpecRun
    /\ WF_vars(WorkerBegins)
    /\ WF_vars(WorkerLogsCommand)
    /\ WF_vars(WorkerSpawns)
    /\ WF_vars(WorkerReadsEOF)
    /\ WF_vars(WorkerLogsOutcome)
    /\ WF_vars(WorkerEnds)
    /\ WF_vars(wait_key)

(* --------------------- behaviours without a stop call ------------------- *)
\* Everything the program does except _stop_sync.
NextNoStop ==
    \/ Launch
    \/ TimerFires
    \/ WorkerBegins
    \/ WorkerLogsCommand
    \/ WorkerSpawns
    \/ WorkerSpawnFails
    \/ WorkerReadsLine
    \/ ProcessExits
    \/ WorkerReadsEOF
    \/ WorkerLogsOutcome
    \/ WorkerEnds
    \/ Scroll
    \/ Toggle
    \/ Search
    \/ Export
    \/ wait_key

\* Every thread that can take a step takes it (worker threads and timer
\* callbacks are scheduled by the interpreter), every external process
\* exits, and the key of an open popup is pressed.
SpecNoStopFair ==
    /\ Init
    /\ [][NextNoStop]_vars
    /\ WF_vars(TimerFires)
    /\ WF_vars(WorkerBegins)
    /\ WF_vars(WorkerLogsCommand)
    /\ WF_vars(WorkerSpawns)
    /\ WF_vars(ProcessExits)
    /\ WF_vars(WorkerReadsEOF)
    /\ WF_vars(WorkerLogsOutcome)
    /\ WF_vars(WorkerEnds)
    /\ WF_vars(wait_key)

(* ---------------------- scrolling during one run ------------------------ *)
\* The arrow and page keys and the expansion key of the logs menu, pressed
\* any number of times while the worker of one task appends its lines.
ScrollKey == \E delta \in Deltas : _scroll_logs(delta) /\ UNCHANGED events

ToggleKey == \E task_id \in DOMAIN sync_tasks :
                 _toggle_task_expansion(task_id) /\ UNCHANGED events

NextScroll ==
    \/ WorkerBegins
    \/ WorkerLogsCommand
    \/ WorkerSpawns
    \/ WorkerSpawnFails
    \/ WorkerReadsLine
    \/ ProcessExits
    \/ WorkerReadsEOF
    \/ WorkerLogsOutcome
    \/ WorkerEnds
    \/ ScrollKey
    \/ ToggleKey

SpecScroll == InitRun /\ [][NextScroll]_vars

(* ------------------------------ claims ---------------------------------- *)
TaskIds == DOMAIN sync_tasks

\* the worker threads started for a task, and those that have not ended
ThreadsOf(task_id) ==
    {w \in 1..Len(threads) : threads[w].task_id = task_id}

InFlight(task_id) ==
    {w \in ThreadsOf(task_id) : threads[w].pc # "done"}

\* worker threads inside their account sequence: after the first lock
\* section, before the final status is written
InSequence(task_id) ==
    {w \in ThreadsOf(task_id) : threads[w].pc \in {"cmd", "popen", "read", "rc", "final"}}

HasStopLine(task_id) ==
    \E i \in 1..Len(sync_tasks[task_id].logs) :
        sync_tasks[task_id].logs[i].kind = "arretee"

PendingTimers(task_id) ==
    {k \in 1..Len(timers) : timers[k].task_id = task_id /\ timers[k].state = "pending"}

\* C1: at every moment at most one run of a task's account sequence is in
\* flight; the recurrence timer never starts a second run while the previous
\* run of the same task has not finished.
C1_OneRunInFlight ==
    \A id \in TaskIds : Cardinality(InFlight(id)) <= 1

\* C2: once the status of a task is Stopped it stays Stopped in every later
\* state; the worker's final status write does not overwrite it.
C2_StoppedStays ==
    [][\A id \in TaskIds :
          sync_tasks[id].status = Stopped => sync_tasks'[id].status = Stopped]_vars

\* C3: after a stop call on a task whose status is Running (here: a stop
\* during the first run, while the task has a single worker), no recurrence
\* timer ever starts a new run of that task.
C3_NoRunAfterStop ==
    [][\A id \in TaskIds :
          (HasStopLine(id) /\ Cardinality(ThreadsOf(id)) = 1)
              => Cardinality({w \in 1..Len(threads') : threads'[w].task_id = id}) = 1]_vars

\* C4: a task with a worker inside its account sequence has status Running
\* unless it was stopped, and a task with no worker in flight does not have
\* status Running.
C4_RunningIffActive ==
    \A id \in TaskIds :
        /\ (InSequence(id) # {} /\ ~HasStopLine(id)) => sync_tasks[id].status = Running
        /\ InFlight(id) = {} => sync_tasks[id].status # Running

FailedStatuses == {Failed, ProjectNotFound, BinaryNotFound}

\* C5: every change of a task's status is Running->Completed, Running->Failed,
\* Running->Stopped or Completed|Failed->Running (a new task starts Running).
C5_LegalTransitions ==
    [][\A id \in TaskIds :
          LET old == sync_tasks[id].status
              new == sync_tasks'[id].status
          IN  old # new =>
                 \/ old = Running /\ new \in {Completed, Stopped} \cup FailedStatuses
                 \/ old \in {Completed} \cup FailedStatuses /\ new = Running]_vars

\* C6: a task with interval > 0 that was never stopped and whose run has
\* completed (Completed or Failed, no worker in flight) has a timer armed for
\* its next run.
C6_CompletionRearms ==
    \A id \in TaskIds :
        (/\ sync_tasks[id].interval > 0
         /\ ~HasStopLine(id)
         /\ InFlight(id) = {}
         /\ sync_tasks[id].status \in {Completed, Failed})
            => PendingTimers(id) # {}

\* C7: for a task submitted with interval 0 no timer is ever armed and its
\* account sequence is run exactly once.
C7_NoRecurrenceAtZero ==
    \A id \in TaskIds :
        sync_tasks[id].interval = 0 =>
            /\ sync_tasks[id].timer = 0
            /\ \A k \in 1..Len(timers) : timers[k].task_id # id
            /\ Cardinality(ThreadsOf(id)) = 1

\* a task with interval 0 has ended its only run while the timer of another
\* task has fired
C7_Witness ==
    \E id \in TaskIds :
        /\ sync_tasks[id].interval = 0
        /\ sync_tasks[id].status = Completed
        /\ InFlight(id) = {}
        /\ \E k \in 1..Len(timers) : timers[k].state = "fired"

\* C8: in a task's log every line appended by a later run comes after every
\* line appended by an earlier run.
C8_RunsInOrder ==
    \A id \in TaskIds :
        \A i, j \in 1..Len(sync_tasks[id].logs) :
            LET a == sync_tasks[id].logs[i].thread
                b == sync_tasks[id].logs[j].thread
            IN  (i < j /\ a # 0 /\ b # 0) => a <= b

LiveProcess(task_id) ==
    /\ sync_tasks[task_id].process # 0
    /\ threads[sync_tasks[task_id].process].alive

TerminalStatuses == {Completed, Stopped} \cup FailedStatuses

\* the lines a worker thread has appended to the log of its task
LinesOf(w) ==
    SelectSeq(sync_tasks[threads[w].task_id].logs, LAMBDA line : line.thread = w)

KindsOf(w, kinds) ==
    SelectSeq(LinesOf(w), LAMBDA line : line.kind \in kinds)

IsPrefix(s, t) ==
    /\ Len(s) <= Len(t)
    /\ SubSeq(t, 1, Len(s)) = s

\* C11: a stop call on a task whose status is Running sets the status to
\* Stopped at any point of the run, also before the first process is spawned
\* and when no process of the task is alive.
C11_StopWhileRunning ==
    [][\A id \in TaskIds :
          (sync_tasks[id].status = Running /\ _stop_sync(id))
              => sync_tasks'[id].status = Stopped]_vars

\* C12: a stop call on a task that has a pending recurrence timer disarms
\* that timer and sets the status to Stopped, also when no process of the
\* task is in flight.
C12_StopDisarmsTimer ==
    [][\A id \in TaskIds :
          (PendingTimers(id) # {} /\ _stop_sync(id))
              => /\ sync_tasks'[id].status = Stopped
                 /\ \A k \in PendingTimers(id) : timers'[k].state # "pending"]_vars

\* C13: a stop call on an identifier of no task, or on a task in a terminal
\* status with no live process and no pending timer, opens its popup and
\* leaves every task, worker and timer unchanged.
C13_StopNotRunning ==
    [][\A id \in TaskIds \cup {UnknownTaskId} :
          (/\ \/ id \notin TaskIds
              \/ /\ sync_tasks[id].status \in TerminalStatuses
                 /\ ~LiveProcess(id)
                 /\ PendingTimers(id) = {}
           /\ _stop_sync(id))
              => /\ UNCHANGED <<sync_tasks, threads, timers>>
                 /\ lock']_vars

\* the popup of a stop call is open (no counted event has happened, so the
\* lock is not held by an export) while every task has completed its run and
\* has no timer
C13_Witness ==
    /\ lock
    /\ events = 0
    /\ TaskIds # {}
    /\ \A id \in TaskIds :
          /\ sync_tasks[id].status = Completed
          /\ InFlight(id) = {}
          /\ PendingTimers(id) = {}

\* C14: when the first run of a task that was not stopped writes its final
\* status, every process of the run having exited and the log holding no
\* stderr line and no line with a failure pattern in its text, the status
\* is Failed if a process of the run exited non-zero and Completed if not.
C14_ExitCodesDecide ==
    [][\A w \in 1..Len(threads) :
          LET id == threads[w].task_id
              logs == sync_tasks[id].logs
          IN  (/\ WriteFinalStatus(w)
               /\ \A v \in ThreadsOf(id) : w <= v
               /\ ~HasStopLine(id)
               /\ \A i \in 1..Len(logs) :
                     logs[i].kind # "ERREUR" /\ logs[i].text # "erreur"
               /\ Len(KindsOf(w, {"OK", "echouee"}))
                     = Len(sync_tasks[id].selected_accounts))
                  => sync_tasks'[id].status =
                        IF Len(KindsOf(w, {"echouee"})) > 0
                        THEN Failed ELSE Completed]_vars

\* C15: a run in which an exception was caught for an account ends with
\* status Failed, whatever the text of the exception.
C15_ExceptionFails ==
    [][\A w \in 1..Len(threads) :
          (WriteFinalStatus(w) /\ Len(KindsOf(w, {"Exception"})) > 0)
              => sync_tasks'[threads[w].task_id].status = Failed]_vars

\* C16: a run that has passed the project and binary look-up and has left
\* its account loop has attempted every account of the task, each once and
\* in order, whatever the outcome of each account.
C16_AllAccountsAttempted ==
    \A w \in 1..Len(threads) :
        LET task == sync_tasks[threads[w].task_id]
            commands == KindsOf(w, {"Commande"})
        IN  (/\ threads[w].pc \in {"final", "done"}
             /\ task.status \notin {ProjectNotFound, BinaryNotFound})
                => /\ Len(commands) = Len(task.selected_accounts)
                   /\ \A i \in 1..Len(commands) : commands[i].acc = i

\* a run over two accounts has ended, its first account having failed (exit
\* code or exception) and its second account having been run to its outcome
C16_Witness ==
    \E w \in 1..Len(threads) :
        LET lines == LinesOf(w)
        IN  /\ threads[w].pc = "done"
            /\ Len(sync_tasks[threads[w].task_id].selected_accounts) = 2
            /\ \E i, j \in 1..Len(lines) :
                  /\ i < j
                  /\ lines[i].kind \in {"echouee", "Exception"}
                  /\ lines[i].acc = 1
                  /\ lines[j].kind = "OK"
                  /\ lines[j].acc = 2

\* C17: a task in a failure status has a log line telling why: the first
\* run of a task that set a failure status has appended at least one line.
C17_FailureIsLogged ==
    \A id \in TaskIds :
        (sync_tasks[id].status \in FailedStatuses /\ Cardinality(ThreadsOf(id)) = 1)
            => Len(sync_tasks[id].logs) > 0

\* C18: when a run writes the final status of its task, no other started run
\* of that task is inside its account sequence.
C18_StatusAfterAllDescriptors ==
    [][\A w \in 1..Len(threads) :
          WriteFinalStatus(w)
              => \A v \in ThreadsOf(threads[w].task_id) \ {w} :
                    threads[v].pc \notin {"cmd", "popen", "read", "rc"}]_vars

\* C19: in every step (launch, worker step, stop, timer, scroll, toggle,
\* search, export, key press) every task is kept and its log before the step
\* is a prefix of its log after the step.
C19_LogsAppendOnly ==
    [][\A id \in TaskIds :
          /\ id \in DOMAIN sync_tasks'
          /\ IsPrefix(sync_tasks[id].logs, sync_tasks'[id].logs)]_vars

\* a worker has appended to a log of several lines after the line of a stop
C19_Witness ==
    \E id \in TaskIds :
        LET logs == sync_tasks[id].logs
        IN  /\ HasStopLine(id)
            /\ Len(logs) >= 3
            /\ logs[Len(logs)].thread # 0

\* C20: a step that changes the log of a task appends one line to it, a line
\* of a worker thread of that task or of a stop call, and changes the log of
\* no other task.
C20_LogsPartitioned ==
    [][\A id \in TaskIds :
          sync_tasks'[id].logs # sync_tasks[id].logs
              => /\ \E line \in {sync_tasks'[id].logs[Len(sync_tasks'[id].logs)]} :
                       /\ sync_tasks'[id].logs = Append(sync_tasks[id].logs, line)
                       /\ line.thread # 0 => threads[line.thread].task_id = id
                 /\ \A other \in TaskIds \ {id} :
                       sync_tasks'[other].logs = sync_tasks[other].logs]_vars

\* two tasks have a worker in flight and each has lines in its log
C20_Witness ==
    \E id1, id2 \in TaskIds :
        /\ id1 # id2
        /\ InFlight(id1) # {} /\ InFlight(id2) # {}
        /\ Len(sync_tasks[id1].logs) > 1 /\ Len(sync_tasks[id2].logs) > 1

\* the task of SpecRun
RunTaskId == TaskId("p1", 1)

\* position of a line among the lines of one account of one run
Rank(line) ==
    CASE line.kind = "Commande" -> 1
      [] line.kind = "stdout" -> 2
      [] line.kind = "ERREUR" -> 3
      [] line.kind \in {"OK", "echouee", "Exception"} -> 4
      [] OTHER -> 0

C22_OnePendingTimer ==
    \A id \in TaskIds : Cardinality(PendingTimers(id)) <= 1

\* the timer of one task is pending, its first run having ended, while the
\* timer of another task has fired
C22_Witness ==
    \E id1, id2 \in TaskIds :
        /\ id1 # id2
        /\ Cardinality(PendingTimers(id1)) = 1
        /\ InFlight(id1) = {}
        /\ \E k \in 1..Len(timers) :
              timers[k].task_id = id2 /\ timers[k].state = "fired"

C24_WritesUnderLock ==
    [][sync_tasks' # sync_tasks => ~lock]_vars

\* while a popup holds the lock, a worker whose process has exited waits for
\* the lock to log the outcome
C24_Witness ==
    /\ lock
    /\ \E w \in 1..Len(threads) : threads[w].pc = "rc"

\* C25: once stop has terminated the process of the run, the worker leaves
\* the read loop of that account.
C25_StopEndsWait ==
    (HasStopLine(RunTaskId) /\ threads[1].pc = "read")
        ~> (threads[1].pc # "read")

C27_ExportSearchPure ==
    [][((\E term \in SearchTerms : _search_logs(term))
          \/ (\E filename \in FileNames : _export_logs(filename)))
              => /\ ~lock
                 /\ UNCHANGED <<sync_tasks, threads, timers, log_scroll_offsets>>]_vars

\* the popup of an export is open while a worker is in flight on a task with
\* lines in its log
C27_Witness ==
    /\ popup = "export"
    /\ \E id \in TaskIds :
          /\ InFlight(id) # {}
          /\ Len(sync_tasks[id].logs) > 0

\* C28: a recurrence run that starts after the earlier runs of its task have
\* ended, whose processes all exit 0 and which appends no line with a failure
\* pattern, ends with status Completed.
C28_RunStatusOwnLines ==
    [][\A w \in 1..Len(threads) :
          LET id == threads[w].task_id
              lines == LinesOf(w)
          IN  (/\ WriteFinalStatus(w)
               /\ \E v \in ThreadsOf(id) : v < w
               /\ \A v \in ThreadsOf(id) \ {w} : threads[v].pc = "done"
               /\ ~HasStopLine(id)
               /\ \A i \in 1..Len(lines) : ~IsFailureLine(lines[i])
               /\ Len(KindsOf(w, {"OK"})) = Len(sync_tasks[id].selected_accounts))
                  => sync_tasks'[id].status = Completed]_vars

\* C29: after a stop call has terminated the process of a run and set
\* Stopped, the worker of that run spawns no further process.
C29_NoSpawnAfterStop ==
    [][\A w \in 1..Len(threads) :
          (HasStopLine(threads[w].task_id) /\ threads[w].pc = "popen")
              => threads'[w].pc # "read"]_vars

\* C30: while a popup waits for its key the lock is free, so that a worker
\* whose process has exited can log the outcome.
C30_PopupWithoutLock ==
    \A w \in 1..Len(threads) :
        (popup # "none" /\ threads[w].pc = "rc")
            => (~lock /\ ENABLED LogOutcome(w))

C32_StderrFails ==
    [][\A w \in 1..Len(threads) :
          (/\ WriteFinalStatus(w)
           /\ threads[w].rc = 0
           /\ threads[w].err)
              => (/\ KindsOf(w, {"ERREUR"}) # <<>>
                  /\ sync_tasks'[threads[w].task_id].status = Failed)]_vars

\* C32 witness: a task that holds only the lines of one run, the last two
\* being the stderr line and the OK outcome of exit code 0, has status
\* Failed after the end of the worker.
C32_Witness ==
    \E w \in 1..Len(threads) :
        LET task == sync_tasks[threads[w].task_id]
            n == Len(task.logs)
        IN  /\ threads[w].pc = "done"
            /\ threads[w].rc = 0
            /\ threads[w].err
            /\ ThreadsOf(threads[w].task_id) = {w}
            /\ n >= 2
            /\ task.logs[n - 1].kind = "ERREUR"
            /\ task.logs[n].kind = "OK"
            /\ \A i \in 1..n : task.logs[i].kind \notin {"echouee", "Exception"}
            /\ task.status = Failed

\* C33: a timer that fires for a task with status ProjectNotFound,
\* BinaryNotFound or Stopped, or for an identifier of no task, starts no
\* worker and leaves the task table unchanged; a task whose runs have all
\* ended and whose status is ProjectNotFound or BinaryNotFound gets no
\* further worker.
C33_NoRestartAfterSetupError ==
    [][/\ \A k \in 1..Len(timers) :
            (/\ _scheduled_sync(k)
             /\ \/ timers[k].task_id \notin DOMAIN sync_tasks
                \/ sync_tasks[timers[k].task_id].status
                       \in {ProjectNotFound, BinaryNotFound, Stopped})
                => UNCHANGED <<sync_tasks, threads>>
       /\ \A id \in TaskIds :
            (/\ sync_tasks[id].status \in {ProjectNotFound, BinaryNotFound}
             /\ \A w \in ThreadsOf(id) : threads[w].pc = "done")
                => {w \in 1..Len(threads') : threads'[w].task_id = id}
                       = ThreadsOf(id)]_vars

\* C33 witness: the timer of the only task has fired, the task has status
\* ProjectNotFound or BinaryNotFound and its first worker is still the only
\* thread.
C33_Witness ==
    /\ Len(threads) = 1
    /\ threads[1].pc = "done"
    /\ sync_tasks[threads[1].task_id].status \in {ProjectNotFound, BinaryNotFound}
    /\ \E k \in 1..Len(timers) :
          /\ timers[k].task_id = threads[1].task_id
          /\ timers[k].state = "fired"

\* C34: the dashboard categories partition the task table: every status is
\* in exactly one of running, succeeded, failed and stopped, and the four
\* counts add up to the total.
C34_DashboardPartition ==
    /\ \A id \in TaskIds :
          LET status == sync_tasks[id].status
          IN  Cardinality({c \in {"running", "succeeded", "failed", "stopped"} :
                  \/ c = "running" /\ IsRunning(status)
                  \/ c = "succeeded" /\ IsSucceeded(status)
                  \/ c = "failed" /\ ContainsErreur(status)
                  \/ c = "stopped" /\ IsStopped(status)}) = 1
    /\ LET d == _draw_home_content
       IN  d.running + d.succeeded + d.failed + d.stopped = d.total

\* C34 witness: two tasks in two categories, one of them failed with a status
\* other than the one the end of a run writes.
C34_Witness ==
    /\ _draw_home_content.total = 2
    /\ _draw_home_content.failed = 1
    /\ _draw_home_content.succeeded = 1
    /\ \E id \in TaskIds : sync_tasks[id].status \in {ProjectNotFound, BinaryNotFound}

\* C35: whatever scroll keys are pressed while lines are appended, the
\* offset of every task stays between 0 and max(0, len(logs) - window_size);
\* a scroll changes the offsets of expanded tasks only and leaves status and
\* logs alone.
C35_OffsetInRange ==
    /\ [](\A id \in TaskIds :
            /\ log_scroll_offsets[id] >= 0
            /\ log_scroll_offsets[id]
                  <= Max(0, Len(sync_tasks[id].logs) - WindowSize))
    /\ [][(\E delta \in Deltas : _scroll_logs(delta))
            => /\ sync_tasks' = sync_tasks
               /\ \A id \in TaskIds :
                     ~sync_tasks[id].expanded
                         => log_scroll_offsets'[id] = log_scroll_offsets[id]]_vars

\* C35 witness: after lines were appended, an expanded task has been
\* scrolled down to its last full window, two lines or more from the top.
C35_Witness ==
    \E id \in TaskIds :
        /\ sync_tasks[id].expanded
        /\ log_scroll_offsets[id] >= 2
        /\ log_scroll_offsets[id] = Len(sync_tasks[id].logs) - WindowSize

\* C36: a launch for k selected accounts creates exactly k tasks, one per
\* selected account and each holding that account alone, and k worker
\* threads, one per new task, all started by the same step.
C36_OneTaskPerAccount ==
    [][\A p \in ProjectNames : \A sel \in Selections(p) : \A iv \in Intervals :
          action_launch_sync(p, sel, iv) =>
              LET selected_accounts ==
                      _select_accounts_to_sync(ProjectAccounts(p), sel, 1)
                  new == DOMAIN sync_tasks' \ DOMAIN sync_tasks
                  workers == {w \in 1..Len(threads') : threads'[w].task_id \in new}
              IN  /\ Cardinality(new) = Len(selected_accounts)
                  /\ \A id \in new : Len(sync_tasks'[id].selected_accounts) = 1
                  /\ {sync_tasks'[id].selected_accounts[1] : id \in new}
                        = {selected_accounts[i] : i \in 1..Len(selected_accounts)}
                  /\ Cardinality(workers) = Len(selected_accounts)
                  /\ \A id \in new : \E w \in workers : threads'[w].task_id = id
                  /\ \A w \in workers : threads'[w].pc = "start"]_vars

\* C36 witness: the two accounts of a project are synchronized by two tasks
\* whose workers both wait on a live process at the same time.
C36_Witness ==
    \E id1, id2 \in TaskIds :
        /\ sync_tasks[id1].selected_accounts = <<"a1">>
        /\ sync_tasks[id2].selected_accounts = <<"a2">>
        /\ sync_tasks[id1].interval = sync_tasks[id2].interval
        /\ \A id \in {id1, id2} :
              \E w \in ThreadsOf(id) : threads[w].pc = "read" /\ threads[w].alive
====
